---- MODULE Spec2Model ----
(***************************************************************************)
(* A model of the agentic Facebook-ads analyst: the structured extractor   *)
(* (LLMClient.generate_json), the four reasoning agents, the data agent    *)
(* with its DataLoader, and the AgentOrchestrator pipeline.                *)
(*                                                                         *)
(* Texts are sequences of one-character strings.  Python values that can   *)
(* come out of json.loads are tagged records [t, v]: t is "dict", "list",  *)
(* "str" or "num".  Ratios (ctr, roas, confidences) are integers scaled by *)
(* 1000.                                                                   *)
(***************************************************************************)
EXTENDS Integers, Sequences, FiniteSets, TLC

(***************************************************************************)
(* Python values                                                           *)
(***************************************************************************)
NoKeys == [k \in {} |-> 0]

Dict(f) == [t |-> "dict", v |-> f]

List(s) == [t |-> "list", v |-> s]

Str(s) == [t |-> "str", v |-> s]

Num(n) == [t |-> "num", v |-> n]

EmptyDict == Dict(NoKeys)

EmptyList == List(<<>>)

IsDict(x) == x.t = "dict"

IsList(x) == x.t = "list"

\* dict.get(key, default) on a value known to be a dict
Get(d, key, default) == IF key \in DOMAIN d.v THEN d.v[key] ELSE default

\* Python truthiness of a tagged value: empty containers, "" and 0 are falsy
Truthy(x) ==
    CASE x.t = "dict" -> DOMAIN x.v # {}
      [] x.t = "list" -> Len(x.v) > 0
      [] x.t = "str" -> Len(x.v) > 0
      [] OTHER -> x.v # 0

Min(a, b) == IF a < b THEN a ELSE b

(***************************************************************************)
(* Characters and string primitives                                        *)
(***************************************************************************)
Q == "\""

\* a TLA+ string cannot hold a backquote: the character "'" stands for it
BT == "'"

Fence == <<BT, BT, BT>>

JsonFence == <<BT, BT, BT, "j", "s", "o", "n">>

Whitespace == {" ", "\n"}

Digits == {"0", "1", "2", "3", "4", "5", "6", "7", "8", "9"}

DigitValue(c) ==
    CASE c = "0" -> 0 [] c = "1" -> 1 [] c = "2" -> 2 [] c = "3" -> 3
      [] c = "4" -> 4 [] c = "5" -> 5 [] c = "6" -> 6 [] c = "7" -> 7
      [] c = "8" -> 8 [] OTHER -> 9

\* str.find(sub) from position 1: the least index where sub occurs, 0 if none
Find(s, sub) ==
    LET hits == {i \in 1..(Len(s) - Len(sub) + 1) :
                    SubSeq(s, i, i + Len(sub) - 1) = sub}
    IN IF hits = {} THEN 0 ELSE CHOOSE i \in hits : \A j \in hits : i <= j

\* sub in s
Contains(s, sub) == Find(s, sub) # 0

\* s.split(sep)[0]
CutAt(s, at) == IF at = 0 THEN s ELSE SubSeq(s, 1, at - 1)

SplitFirst(s, sep) == CutAt(s, Find(s, sep))

\* s.split(sep)[1], for s that contains sep
SplitSecond(s, sep) ==
    SplitFirst(SubSeq(s, Find(s, sep) + Len(sep), Len(s)), sep)

\* s.strip()
Strip(s) ==
    LET keep == {i \in 1..Len(s) : s[i] \notin Whitespace}
    IN IF keep = {} THEN <<>>
       ELSE SubSeq(s, CHOOSE i \in keep : \A j \in keep : i <= j,
                      CHOOSE i \in keep : \A j \in keep : i >= j)

\* the slice forgotten: the whole of s
PrefixWhole(s, n) == s

\* s[:n]
Prefix(s, n) == SubSeq(s, 1, Min(n, Len(s)))

(***************************************************************************)
(* json.loads, for the JSON subset of objects, arrays, strings without     *)
(* escapes and unsigned integers.  Each parser returns [ok, val, next].    *)
(***************************************************************************)
ParseFail == [ok |-> FALSE, val |-> Num(0), next |-> 0]

ParseOk(v, n) == [ok |-> TRUE, val |-> v, next |-> n]

\* the first index >= i that holds no whitespace (Len(s) + 1 at the end)
SkipWs(s, i) ==
    LET rest == {j \in i..Len(s) : s[j] \notin Whitespace}
    IN IF rest = {} THEN Len(s) + 1
       ELSE CHOOSE j \in rest : \A k \in rest : j <= k

\* object keys are Python strings; the model interns the key texts it uses
KeyName(chars) ==
    CASE chars = <<"s", "u", "b", "t", "a", "s", "k", "s">> -> "subtasks"
      [] chars = <<"h", "y", "p", "o", "t", "h", "e", "s", "e", "s">> -> "hypotheses"
      [] chars = <<"i", "d">> -> "id"
      [] chars = <<"a">> -> "a"
      [] chars = <<"b">> -> "b"
      [] OTHER -> "?"

\* s[i] is the opening quote
ParseString(s, i) ==
    LET closing == {j \in (i + 1)..Len(s) : s[j] = Q}
    IN IF closing = {} THEN ParseFail
       ELSE LET j == CHOOSE c \in closing : \A d \in closing : c <= d
            IN IF \E k \in (i + 1)..(j - 1) : s[k] = "\n" THEN ParseFail
               ELSE ParseOk(Str(SubSeq(s, i + 1, j - 1)), j + 1)

\* s[i] is a digit; a leading 0 ends the number
ParseNumber(s, i) ==
    LET nondigit == {j \in i..Len(s) : s[j] \notin Digits}
        stop == IF s[i] = "0" THEN i + 1
                ELSE IF nondigit = {} THEN Len(s) + 1
                ELSE CHOOSE j \in nondigit : \A k \in nondigit : j <= k
        Val[j \in i..stop] ==
            IF j = i THEN 0 ELSE Val[j - 1] * 10 + DigitValue(s[j - 1])
    IN ParseOk(Num(Val[stop]), stop)

RECURSIVE ParseValue(_, _), ParseMembers(_, _, _), ParseElements(_, _, _)

ParseValue(s, i) ==
    IF i > Len(s) THEN ParseFail
    ELSE IF s[i] = "{" THEN
        LET j == SkipWs(s, i + 1)
        IN IF j <= Len(s) /\ s[j] = "}" THEN ParseOk(EmptyDict, j + 1)
           ELSE ParseMembers(s, j, NoKeys)
    ELSE IF s[i] = "[" THEN
        LET j == SkipWs(s, i + 1)
        IN IF j <= Len(s) /\ s[j] = "]" THEN ParseOk(EmptyList, j + 1)
           ELSE ParseElements(s, j, <<>>)
    ELSE IF s[i] = Q THEN ParseString(s, i)
    ELSE IF s[i] \in Digits THEN ParseNumber(s, i)
    ELSE ParseFail

\* position j is where the key of a member must start
ParseMembers(s, j, acc) ==
    IF j > Len(s) \/ s[j] # Q THEN ParseFail
    ELSE LET key == ParseString(s, j)
         IN IF ~key.ok THEN ParseFail
            ELSE LET c == SkipWs(s, key.next)
                 IN IF c > Len(s) \/ s[c] # ":" THEN ParseFail
                    ELSE LET val == ParseValue(s, SkipWs(s, c + 1))
                         IN IF ~val.ok THEN ParseFail
                            ELSE LET m == SkipWs(s, val.next)
                                     name == KeyName(key.val.v)
                                     acc2 == [k \in DOMAIN acc \cup {name} |->
                                                IF k = name THEN val.val ELSE acc[k]]
                                 IN IF m > Len(s) THEN ParseFail
                                    ELSE IF s[m] = "}" THEN ParseOk(Dict(acc2), m + 1)
                                    ELSE IF s[m] = "," THEN
                                        ParseMembers(s, SkipWs(s, m + 1), acc2)
                                    ELSE ParseFail

\* position j is where an element must start
ParseElements(s, j, acc) ==
    LET val == ParseValue(s, j)
    IN IF ~val.ok THEN ParseFail
       ELSE LET m == SkipWs(s, val.next)
                acc2 == Append(acc, val.val)
            IN IF m > Len(s) THEN ParseFail
               ELSE IF s[m] = "]" THEN ParseOk(List(acc2), m + 1)
               ELSE IF s[m] = "," THEN ParseElements(s, SkipWs(s, m + 1), acc2)
               ELSE ParseFail

\* json.loads(s): [ok, val]; ok = FALSE stands for json.JSONDecodeError
WholeText(s, r) ==
    IF r.ok /\ SkipWs(s, r.next) = Len(s) + 1
    THEN [ok |-> TRUE, val |-> r.val]
    ELSE [ok |-> FALSE, val |-> Num(0)]

JsonLoads(s) == WholeText(s, ParseValue(s, SkipWs(s, 1)))

(***************************************************************************)
(* LLMClient                                                               *)
(***************************************************************************)
\* the bound of the diagnostic prefix in generate_json
PrefixBound == 200

\* a Python string literal, as opposed to Str(chars), a string of a text
Lit(s) == [t |-> "lit", v |-> s]

\* str(e): a fixed text followed by the characters the message quotes
Message(text, quoted) == [text |-> text, quoted |-> quoted]

MessageEmpty(m) == m.text = "" /\ m.quoted = <<>>

Raise(type, msg) == [raised |-> TRUE, type |-> type, msg |-> msg]

Return(v) == [raised |-> FALSE, val |-> v]

\* what the generation service does on one call: it fails, or answers a text
ServiceFails == [fails |-> TRUE, text |-> <<>>]

ServiceAnswers(text) == [fails |-> FALSE, text |-> text]

\* LLMClient.generate: the answer text, RuntimeError when the service raises
Generate(outcome) ==
    IF outcome.fails
    THEN Raise("RuntimeError", Message("LLM generation failed: ", <<>>))
    ELSE Return(outcome.text)

\* the result of a json.loads call inside generate_json, parsed being what
\* json.loads made of the text: a JSONDecodeError leaves generate_json as it is
Loaded(parsed) ==
    IF parsed.ok THEN Return(parsed.val)
    ELSE Raise("JSONDecodeError", Message("Expecting value", <<>>))

\* the except branch of generate_json: the fenced blocks, else the ValueError
ExtractFenced(response) ==
    IF Contains(response, JsonFence)
    THEN Loaded(JsonLoads(Strip(SplitFirst(SplitSecond(response, JsonFence), Fence))))
    ELSE IF Contains(response, Fence)
    THEN Loaded(JsonLoads(Strip(SplitFirst(SplitSecond(response, Fence), Fence))))
    ELSE Raise("ValueError",
               Message("Could not parse JSON from response: ",
                       Prefix(response, PrefixBound)))

\* the try block of generate_json, direct being json.loads(response)
ExtractDirect(response, direct) ==
    IF direct.ok THEN Return(direct.val) ELSE ExtractFenced(response)

\* the extraction part of generate_json, applied to the response text
ExtractJson(response) == ExtractDirect(response, JsonLoads(response))

\* LLMClient.generate_json (and BaseAgent.think_json, which forwards to it)
GenerateJson(outcome) ==
    IF outcome.fails THEN Generate(outcome) ELSE ExtractJson(outcome.text)

(***************************************************************************)
(* The reasoning agents.  Each execute is a function of the task, the      *)
(* context, whether the prompt template can be opened, and what the        *)
(* generation service does; it returns Return(result) or Raise(...).       *)
(***************************************************************************)
Float(s) == [t |-> "float", v |-> s]

\* context.get(key, default), the context being a Python dict the caller built
CtxGet(context, key, default) ==
    IF key \in DOMAIN context THEN context[key] ELSE default

\* open('prompts/<role>.md') on a missing template
PromptMissing(role) ==
    Raise("FileNotFoundError", Message("No such file or directory: prompts/", <<role>>))

Subtask(id, title, reqs, owner) ==
    Dict([id |-> Lit(id), title |-> Lit(title), description |-> Lit("..."),
          data_requirements |-> List(reqs), owner_agent |-> Lit(owner)])

\* PlannerAgent._create_fallback_plan (the long description texts are cut)
FallbackPlan(task, context) ==
    Dict([query |-> Lit(task),
          analysis_type |-> Lit("holistic"),
          subtasks |-> List(<<
              Subtask("task_1", "Load and summarize dataset",
                      <<Lit("campaign_summary"), Lit("creative_performance"), Lit("timeline")>>,
                      "data_agent"),
              Subtask("task_2", "Generate performance hypotheses",
                      <<Lit("performance_trends"), Lit("segment_analysis")>>,
                      "insight_agent"),
              Subtask("task_3", "Validate hypotheses quantitatively",
                      <<Lit("all_metrics")>>, "evaluator"),
              Subtask("task_4", "Generate creative recommendations",
                      <<Lit("low_ctr_campaigns"), Lit("high_ctr_examples")>>,
                      "creative_generator")>>),
          key_metrics |-> List(<<Lit("roas"), Lit("ctr"), Lit("spend"), Lit("revenue"),
                                 Lit("impressions"), Lit("clicks")>>),
          success_criteria |-> List(<<Lit("Load and summarize complete dataset"),
                                      Lit("Generate at least 3 data-grounded hypotheses"),
                                      Lit("Validate hypotheses with >0.6 confidence"),
                                      Lit("Generate 3-5 creative recommendations per low-CTR campaign")>>),
          reasoning |-> Lit("Standard analysis pipeline for ad performance diagnosis")])

\* the planner returning its template plan whatever was parsed
PlannerResultTemplate(task, context, plan_response) ==
    IF plan_response.raised
    THEN Return([status |-> "partial",
                 plan |-> FallbackPlan(task, context),
                 error |-> plan_response.msg])
    ELSE Return([status |-> "success",
                 plan |-> FallbackPlan(task, context),
                 task |-> Lit(task)])

\* PlannerAgent.execute
PlannerResult(task, context, plan_response) ==
    IF plan_response.raised
    THEN Return([status |-> "partial",
                 plan |-> FallbackPlan(task, context),
                 error |-> plan_response.msg])
    ELSE Return([status |-> "success",
                 plan |-> plan_response.val,
                 task |-> Lit(task)])

PlannerExecute(task, context, prompt_ok, outcome) ==
    IF ~prompt_ok THEN PromptMissing("planner")
    ELSE PlannerResult(task, context, GenerateJson(outcome))

Hypothesis(id, title, driver, confidence) ==
    Dict([id |-> Lit(id), title |-> Lit(title), description |-> Lit("..."),
          driver |-> Lit(driver), testable_prediction |-> Lit("..."),
          supporting_evidence |-> List(<<Lit("..."), Lit("...")>>),
          confidence |-> Float(confidence), confidence_reasoning |-> Lit("...")])

Priority(id, score) ==
    Dict([hypothesis_id |-> Lit(id), priority_score |-> Float(score), reason |-> Lit("...")])

\* InsightAgent._create_fallback_hypotheses (the long description texts are cut)
FallbackHypotheses(task, context) ==
    Dict([query_summary |-> Lit(task),
          hypotheses |-> List(<<
              Hypothesis("h1", "Audience Fatigue", "Audience Fatigue", "0.75"),
              Hypothesis("h2", "Creative Type Performance Variation",
                         "Creative Decay / Format Effectiveness", "0.70"),
              Hypothesis("h3", "Audience Targeting Mismatch",
                         "Audience Targeting Quality", "0.72"),
              Hypothesis("h4", "Messaging Relevance Impact",
                         "Message Clarity / Value Proposition", "0.68")>>),
          priority_ranking |-> List(<<Priority("h1", "0.85"), Priority("h3", "0.75"),
                                      Priority("h2", "0.70"), Priority("h4", "0.65")>>),
          reasoning |-> Lit("Generated template hypotheses based on common ad performance drivers; LLM generation failed")])

\* InsightAgent.execute
InsightResult(task, context, hypotheses_response) ==
    IF hypotheses_response.raised
    THEN Return([status |-> "partial",
                 hypotheses |-> FallbackHypotheses(task, context),
                 error |-> hypotheses_response.msg])
    ELSE Return([status |-> "success",
                 hypotheses |-> hypotheses_response.val,
                 task |-> Lit(task)])

InsightExecute(task, context, prompt_ok, outcome) ==
    IF ~prompt_ok THEN PromptMissing("insight_agent")
    ELSE InsightResult(task, context, GenerateJson(outcome))

\* the policy bound of EvaluatorAgent._create_fallback_evaluation
EvaluatedHypotheses == 3

\* the policy bound of CreativeGeneratorAgent.execute
CreativeCampaigns == 3

\* the slice forgotten: every element of the list
FirstNAll(x, n) == x.v

\* x[:n] of a list value, as a sequence
FirstN(x, n) == SubSeq(x.v, 1, Min(n, Len(x.v)))

\* whether the loop over hypotheses[:3], which calls h.get, raises: a dict or
\* a number cannot be sliced, and an element that is no dict has no get
FallbackEvaluationRaises(hypotheses) ==
    CASE hypotheses.t = "list" ->
            \E i \in 1..Len(FirstN(hypotheses, EvaluatedHypotheses)) :
                ~IsDict(hypotheses.v[i])
      [] hypotheses.t = "str" -> Len(hypotheses.v) > 0
      [] hypotheses.t = "lit" -> hypotheses.v # ""
      [] OTHER -> TRUE

HypothesisEvaluation(h) ==
    Dict([hypothesis_id |-> Get(h, "id", Lit("h_unknown")),
          hypothesis_title |-> Get(h, "title", Lit("Unknown")),
          validation_approach |-> Lit("Comparative segment analysis"),
          data_evidence |-> Dict([primary_metric |->
              Dict([baseline |-> Float("0.015"), observed |-> Float("0.012"),
                    change_percent |-> Float("-20.0"),
                    statistical_note |-> Lit("Meaningful decline (>5% threshold)")])]),
          supporting_metrics |-> List(<<Lit("Metric1: 25% decrease aligns with hypothesis"),
                                        Lit("Metric2: Pattern consistent across segments")>>),
          contradicting_metrics |-> List(<<Lit("Some segments show stable performance")>>),
          confidence_score |-> Get(h, "confidence", Float("0.7")),
          confidence_reasoning |-> Lit("Evidence supports hypothesis with some caveats; alternative explanations possible"),
          validation_status |-> Lit("PARTIALLY_CONFIRMED"),
          actionability |-> Lit("Sufficient confidence to recommend testing remediation tactics")])

\* EvaluatorAgent._create_fallback_evaluation, for hypotheses it does not raise on
FallbackEvaluation(hypotheses) ==
    Dict([evaluation_summary |-> Lit("Multiple hypotheses partially confirmed; recommend prioritized testing"),
          hypothesis_evaluations |->
              List(IF hypotheses.t = "list"
                   THEN [i \in 1..Len(FirstN(hypotheses, EvaluatedHypotheses)) |->
                            HypothesisEvaluation(hypotheses.v[i])]
                   ELSE <<>>),
          top_validated_insights |-> List(<<
              Dict([insight |-> Lit("Audience fatigue appears to be primary driver of ROAS decline"),
                    confidence |-> Float("0.72"),
                    impact |-> Lit("Recommend creative refresh and audience expansion strategy")])>>),
          recommended_actions |-> List(<<
              Lit("Action 1: Increase creative variation frequency to combat audience fatigue"),
              Lit("Action 2: Expand lookalike audience size and refresh weekly"),
              Lit("Action 3: Test new creative messaging angles in control groups")>>),
          evaluation_methodology |-> Lit("Segment comparison with trend analysis; >5% delta threshold applied")])

\* EvaluatorAgent.execute
EvaluatorResult(task, hypotheses, evaluation_response) ==
    IF ~evaluation_response.raised
    THEN Return([status |-> "success",
                 evaluation |-> evaluation_response.val,
                 task |-> Lit(task)])
    ELSE IF FallbackEvaluationRaises(hypotheses)
    THEN Raise("AttributeError", Message("object has no attribute 'get'", <<>>))
    ELSE Return([status |-> "partial",
                 evaluation |-> FallbackEvaluation(hypotheses),
                 error |-> evaluation_response.msg])

EvaluatorExecute(task, context, prompt_ok, outcome) ==
    IF ~prompt_ok THEN PromptMissing("evaluator")
    ELSE IF ~IsDict(CtxGet(context, "hypotheses", EmptyDict))
    THEN Raise("AttributeError", Message("object has no attribute 'get'", <<>>))
    ELSE EvaluatorResult(task,
                         Get(CtxGet(context, "hypotheses", EmptyDict),
                             "hypotheses", EmptyList),
                         GenerateJson(outcome))

Creative(id, headline, angle, value_prop, cta, lift) ==
    Dict([id |-> Lit(id), headline |-> Lit(headline), creative_angle |-> Lit(angle),
          value_prop |-> Lit(value_prop), cta |-> Lit(cta),
          why_this_works |-> Lit("..."), predicted_lift |-> Lit(lift)])

\* CreativeGeneratorAgent._create_fallback_creative
FallbackCreative(campaign) ==
    Dict([low_performer_analysis |->
              Dict([campaign_name |-> Get(campaign, "campaign_name", Lit("Unknown")),
                    current_ctr |-> Get(campaign, "ctr", Float("0.01")),
                    current_messaging |-> Get(campaign, "creative_message", Lit("Unknown")),
                    performance_gap |-> Lit("Below average CTR")]),
          creative_recommendations |-> List(<<
              Creative("rec_1", "Breathable comfort for your active lifestyle - Shop now",
                       "Lifestyle positioning with lifestyle benefit",
                       "Comfort and activity compatibility", "Shop now", "15-25%"),
              Creative("rec_2", "Limited stock: Best-selling comfort briefs back in store",
                       "Urgency + social proof", "Scarcity and bestseller status",
                       "Get yours today", "10-20%"),
              Creative("rec_3", "No ride-up guarantee or your money back - Premium comfort inside",
                       "Problem-solution with guarantee",
                       "Specific pain point solved + risk reversal", "Try risk-free", "20-30%")>>),
          implementation_priority |-> List(<<
              Dict([recommendation_id |-> Lit("rec_3"), priority |-> Lit("HIGH")]),
              Dict([recommendation_id |-> Lit("rec_1"), priority |-> Lit("MEDIUM")]),
              Dict([recommendation_id |-> Lit("rec_2"), priority |-> Lit("MEDIUM")])>>)])

\* whether building the prompt of one campaign raises: campaign.get needs a
\* dict, and the :.4f format of its ctr needs a number
CampaignPromptRaises(campaign) ==
    ~IsDict(campaign) \/ Get(campaign, "ctr", Float("0.01")).t \notin {"num", "float"}

\* the body of the loop for one campaign: the parsed record, or the fallback
Recommendation(campaign, campaign_recommendations) ==
    IF campaign_recommendations.raised THEN FallbackCreative(campaign)
    ELSE campaign_recommendations.val

CampaignRecommendation(campaign, outcome) ==
    Recommendation(campaign, GenerateJson(outcome))

\* CreativeGeneratorAgent.execute; outcomes[i] is what the generation service
\* does on the i-th call
CreativeExecute(task, context, prompt_ok, outcomes) ==
    IF ~prompt_ok THEN PromptMissing("creative_generator")
    ELSE IF ~IsDict(CtxGet(context, "analysis", EmptyDict))
    THEN Raise("AttributeError", Message("object has no attribute 'get'", <<>>))
    ELSE LET low_ctr_campaigns == Get(CtxGet(context, "analysis", EmptyDict),
                                      "low_ctr_campaigns", EmptyList)
         IN IF ~Truthy(low_ctr_campaigns)
            THEN Return([status |-> "info",
                         message |-> Lit("No low-CTR campaigns found for optimization"),
                         recommendations |-> EmptyList])
            ELSE IF ~IsList(low_ctr_campaigns)
                    \/ \E i \in 1..Len(FirstN(low_ctr_campaigns, CreativeCampaigns)) :
                          CampaignPromptRaises(low_ctr_campaigns.v[i])
            THEN Raise("TypeError", Message("campaign is not a record", <<>>))
            ELSE LET recommendations ==
                        [i \in 1..Len(FirstN(low_ctr_campaigns, CreativeCampaigns)) |->
                            CampaignRecommendation(low_ctr_campaigns.v[i], outcomes[i])]
                 IN Return([status |-> "success",
                            recommendations |-> List(recommendations),
                            count |-> Num(Len(recommendations))])

\* the number of generation calls CreativeGeneratorAgent.execute makes: one
\* per campaign of the first three, up to the first whose prompt raises
CreativeCalls(context, prompt_ok) ==
    IF ~prompt_ok \/ ~IsDict(CtxGet(context, "analysis", EmptyDict)) THEN 0
    ELSE LET low_ctr_campaigns == Get(CtxGet(context, "analysis", EmptyDict),
                                      "low_ctr_campaigns", EmptyList)
             bad == IF IsList(low_ctr_campaigns)
                    THEN {i \in 1..Len(FirstN(low_ctr_campaigns, CreativeCampaigns)) :
                            CampaignPromptRaises(low_ctr_campaigns.v[i])}
                    ELSE {}
         IN IF ~IsList(low_ctr_campaigns) THEN 0
            ELSE IF bad = {} THEN Len(FirstN(low_ctr_campaigns, CreativeCampaigns))
            ELSE (CHOOSE i \in bad : \A j \in bad : i <= j) - 1

(***************************************************************************)
(* DataLoader and DataSummary.  A dataframe is a sequence of rows; a row   *)
(* is a record of the CSV columns; dates are day numbers.                  *)
(***************************************************************************)
Row(campaign, adset, message, creative, audience, country, date, spend, impressions, clicks, purchases, revenue, ctr, roas) ==
    [campaign_name |-> campaign, adset_name |-> adset, creative_message |-> message,
     creative_type |-> creative, audience_type |-> audience, country |-> country,
     date |-> date, spend |-> spend, impressions |-> impressions, clicks |-> clicks,
     purchases |-> purchases, revenue |-> revenue, ctr |-> ctr, roas |-> roas]

\* df.sort_values('date'): rows of equal date keep their file order (the
\* sort of a frame this small is an insertion sort)
RECURSIVE SortByDate(_)
SortByDate(df) ==
    IF Len(df) <= 1 THEN df
    ELSE LET last == df[Len(df)]
             init == SortByDate(SubSeq(df, 1, Len(df) - 1))
             before == {i \in 1..Len(init) : init[i].date <= last.date}
             k == IF before = {} THEN 0
                  ELSE CHOOSE i \in before : \A j \in before : i >= j
         IN SubSeq(init, 1, k) \o <<last>> \o SubSeq(init, k + 1, Len(init))

\* the file sampled before it is sorted
LoadSampleFirst(rows, sample_mode, sample_size) ==
    IF sample_mode THEN SortByDate(SubSeq(rows, 1, Min(sample_size, Len(rows))))
    ELSE SortByDate(rows)

\* DataLoader.load on a file that exists and parses
Load(rows, sample_mode, sample_size) ==
    IF sample_mode THEN SubSeq(SortByDate(rows), 1, Min(sample_size, Len(rows)))
    ELSE SortByDate(rows)

RECURSIVE Sum(_, _)
Sum(df, column) ==
    IF df = <<>> THEN 0 ELSE df[1][column] + Sum(Tail(df), column)

\* Series.unique(): the distinct values in order of first appearance
RECURSIVE Unique(_, _)
Unique(df, column) ==
    IF df = <<>> THEN <<>>
    ELSE LET init == Unique(SubSeq(df, 1, Len(df) - 1), column)
             x == df[Len(df)][column]
         IN IF \E i \in 1..Len(init) : init[i] = Lit(x) THEN init
            ELSE Append(init, Lit(x))

\* Series.mean(): kept as the pair (sum, count); NaN on an empty series
Mean(df, column) == [t |-> "mean", v |-> <<Sum(df, column), Len(df)>>]

\* Series.min() and Series.max(); NaN (NaT for dates) on an empty series
ColumnMin(df, column) ==
    IF df = <<>> THEN Lit("NaN")
    ELSE Num(CHOOSE x \in {df[i][column] : i \in 1..Len(df)} :
                \A i \in 1..Len(df) : x <= df[i][column])

ColumnMax(df, column) ==
    IF df = <<>> THEN Lit("NaN")
    ELSE Num(CHOOSE x \in {df[i][column] : i \in 1..Len(df)} :
                \A i \in 1..Len(df) : x >= df[i][column])

\* DataSummary.generate_summary
GenerateSummary(df) ==
    Dict([row_count |-> Num(Len(df)),
          date_range |-> Dict([start |-> ColumnMin(df, "date"),
                               end |-> ColumnMax(df, "date")]),
          campaigns |-> List(Unique(df, "campaign_name")),
          adsets |-> List(Unique(df, "adset_name")),
          creative_types |-> List(Unique(df, "creative_type")),
          audience_types |-> List(Unique(df, "audience_type")),
          countries |-> List(Unique(df, "country")),
          performance_metrics |->
              Dict([total_spend |-> Num(Sum(df, "spend")),
                    total_impressions |-> Num(Sum(df, "impressions")),
                    total_clicks |-> Num(Sum(df, "clicks")),
                    total_purchases |-> Num(Sum(df, "purchases")),
                    total_revenue |-> Num(Sum(df, "revenue")),
                    avg_ctr |-> Mean(df, "ctr"),
                    avg_roas |-> Mean(df, "roas"),
                    min_roas |-> ColumnMin(df, "roas"),
                    max_roas |-> ColumnMax(df, "roas")])])

\* the comparison of filter_low_ctr taken to include the threshold
FilterLowCtrInclusive(df, threshold) == SelectSeq(df, LAMBDA r : r.ctr <= threshold)

\* DataLoader.filter_low_ctr
FilterLowCtr(df, threshold) == SelectSeq(df, LAMBDA r : r.ctr < threshold)

RECURSIVE Gcd(_, _)
Gcd(a, b) == IF b = 0 THEN a ELSE Gcd(b, a % b)

\* a finite quotient, kept as a fraction in lowest terms
Quotient(n, d) == [t |-> "ratio", v |-> <<n \div Gcd(n, d), d \div Gcd(n, d)>>]

\* the division of two numeric columns, element by element: a zero divisor
\* raises nothing, it gives inf (or -inf), and 0 / 0 gives NaN
Divide(n, d) ==
    IF d # 0 THEN Quotient(n, d)
    ELSE IF n = 0 THEN Lit("NaN")
    ELSE IF n > 0 THEN Lit("inf") ELSE Lit("-inf")

\* the keys of groupby('date'), ascending
RECURSIVE SortedDates(_)
SortedDates(dates) ==
    IF dates = {} THEN <<>>
    ELSE LET first == CHOOSE d \in dates : \A e \in dates : d <= e
         IN <<first>> \o SortedDates(dates \ {first})

\* the rows of one date
DateGroup(df, date) == SelectSeq(df, LAMBDA r : r.date = date)

\* the roas of a date taken as the mean of its rows' roas column (which the
\* frames here hold in thousandths)
DailyRoasAveraged(group) == Divide(Sum(group, "roas"), 1000 * Len(group))

\* daily_roas['roas'] of one date
DailyRoas(group) == Divide(Sum(group, "revenue"), Sum(group, "spend"))

\* daily_roas['ctr'] of one date
DailyCtr(group) == Divide(Sum(group, "clicks"), Sum(group, "impressions"))

\* one record of the timeline
DailyRecord(date, group) ==
    [date |-> date, spend |-> Sum(group, "spend"), revenue |-> Sum(group, "revenue"),
     impressions |-> Sum(group, "impressions"), clicks |-> Sum(group, "clicks"),
     roas |-> DailyRoas(group), ctr |-> DailyCtr(group)]

\* the timeline over the sorted keys
Timeline(df, dates) == [k \in 1..Len(dates) |-> DailyRecord(dates[k], DateGroup(df, dates[k]))]

\* DataLoader.get_roas_timeline on a loaded frame
GetRoasTimeline(df) == Timeline(df, SortedDates({df[i].date : i \in 1..Len(df)}))

(***************************************************************************)
(* DataAgent                                                               *)
(***************************************************************************)
\* the threshold DataAgent passes to filter_low_ctr, 0.012
LowCtrThreshold == 12

\* what the dataset path resolves to
MissingFile == [exists |-> FALSE, readable |-> FALSE, rows |-> <<>>]

UnreadableFile == [exists |-> TRUE, readable |-> FALSE, rows |-> <<>>]

CsvFile(rows) == [exists |-> TRUE, readable |-> TRUE, rows |-> rows]

\* DataAgent._perform_analysis; df_is_none is (self.df is None).  The guard
\* of the code, (if not self.df is None), returns the empty analysis exactly
\* when a frame is loaded; with no frame the per-campaign analysis is empty
\* and the loader's analyses would have to load the file themselves.
PerformAnalysis(df_is_none, requirements) ==
    IF ~df_is_none THEN EmptyDict
    ELSE Dict([k \in {"campaign_performance"} \cap
                     (IF requirements = {} THEN {"campaign_performance"} ELSE requirements)
               |-> EmptyDict])

\* DataAgent._structure_findings, the prompt template being readable
Findings(summary, analysis, structured) ==
    IF structured.raised
    THEN Dict([summary |-> summary,
               key_segments |-> analysis,
               trend_observations |-> List(<<Lit("Data loaded successfully")>>),
               reasoning |-> Lit("Basic data analysis completed")])
    ELSE structured.val

StructureFindings(summary, analysis, outcome) ==
    Findings(summary, analysis, GenerateJson(outcome))

\* DataAgent.execute: every exception inside it becomes a status error result
DataExecute(task, context, file, prompt_ok, outcome) ==
    IF ~file.exists
    THEN Return([status |-> "error",
                 error |-> Message("Dataset not found: ", <<context.dataset_path>>)])
    ELSE IF ~file.readable
    THEN Return([status |-> "error", error |-> Message("Error tokenizing data", <<>>)])
    ELSE LET df == Load(file.rows, context.sample_mode, context.sample_size)
             summary_dict == GenerateSummary(df)
             analysis_results == PerformAnalysis(FALSE, context.analysis_requirements)
         IN IF ~prompt_ok
            THEN Return([status |-> "error",
                         error |-> PromptMissing("data_agent").msg])
            ELSE Return([status |-> "success",
                         data_summary |-> summary_dict,
                         analysis |-> analysis_results,
                         structured_findings |->
                             StructureFindings(summary_dict, analysis_results, outcome),
                         record_count |-> Num(Len(df))])

(***************************************************************************)
(* The answers the generation service may give                             *)
(***************************************************************************)
\* a bare record with the keys the stages read
TextRecord ==
    <<"{", Q, "s", "u", "b", "t", "a", "s", "k", "s", Q, ":", "[", "1", "]", ",", Q, "h",
      "y", "p", "o", "t", "h", "e", "s", "e", "s", Q, ":", "[", "{", Q, "i", "d", Q, ":",
      Q, "a", Q, "}", "]", "}">>

\* valid JSON that is no record
TextList ==
    <<"[", "]">>

\* no JSON and no fence
TextJunk ==
    <<"n", "o", "t", " ", "s", "t", "r", "u", "c", "t", "u", "r", "e", "d", " ", "a", "t",
      " ", "a", "l", "l">>

\* a labelled fence whose interior does not parse
TextFencedJunk ==
    <<"o", "k", " ", BT, BT, BT, "j", "s", "o", "n", "\n", "n", "o", "t", " ", "j", "s",
      "o", "n", "\n", BT, BT, BT>>

\* a fenced record whose hypotheses are no records
TextBadHypotheses ==
    <<BT, BT, BT, "j", "s", "o", "n", "\n", "{", Q, "h", "y", "p", "o", "t", "h", "e", "s",
      "e", "s", Q, ":", "[", "1", "]", "}", "\n", BT, BT, BT>>

PipelineTexts == {TextRecord, TextList, TextJunk, TextFencedJunk, TextBadHypotheses}

\* what the generation service may do on a call made by the pipeline
ServiceOutcomes == {ServiceFails} \cup {ServiceAnswers(t) : t \in PipelineTexts}

(***************************************************************************)
(* The environment of a run: configuration and dataset file                *)
(***************************************************************************)
\* the default of data.sample_size
DefaultSampleSize == 100

\* a sample size small enough to cut the datasets of the model
SmallSampleSize == 2

DefaultDatasetPath == "data/synthetic_fb_ads_undergarments.csv"

\* the data section of the configuration document
Configs ==
    {[dataset_path |-> DefaultDatasetPath, sample_mode |-> TRUE,
      sample_size |-> DefaultSampleSize],
     [dataset_path |-> DefaultDatasetPath, sample_mode |-> TRUE,
      sample_size |-> SmallSampleSize]}

\* three campaigns, out of date order, with ctr 0.010, 0.012 and 0.015
Dataset3 ==
    <<Row("Camp A", "Adset 1", "Comfort first", "Image", "Broad", "US",
          2, 10, 1000, 10, 1, 5, 10, 500),
      Row("Camp B", "Adset 2", "Soft cotton", "Video", "Lookalike", "US",
          1, 20, 1000, 12, 2, 30, 12, 1500),
      Row("Camp C", "Adset 3", "No ride-up", "UGC", "Interest", "IN",
          2, 20, 2000, 30, 3, 30, 15, 1500)>>

DatasetFiles == {MissingFile, UnreadableFile, CsvFile(<<>>), CsvFile(Dataset3)}

UserQuery == "Analyze why ROAS has declined"

(***************************************************************************)
(* AgentOrchestrator                                                       *)
(***************************************************************************)
VARIABLES
    config,             \* the data section of the loaded configuration
    pc,                 \* where execute stands
    execution_id,       \* the id of the current run
    clock,              \* datetime.now(), as a logical clock
    execution_trace,    \* self.execution_trace
    results,            \* self.results
    execution_history,  \* BaseAgent.execution_history of each agent
    log,                \* the events handed to the logger
    files,              \* the output artifacts written, by name
    ret,                \* what execute returned
    invoked,            \* history: the steps of this run that were entered, in order
    contexts,           \* history: the context each stage was invoked with
    service_log,        \* history: the generation calls of this run
    dataset,            \* history: what the dataset path resolved to
    fault,              \* history: where an exception was raised in this run
    call,               \* the last direct call of an agent or of the extractor
    exit_code           \* the exit status of the command line process, once it has one

vars == <<config, pc, execution_id, clock, execution_trace, results,
          execution_history, log, files, ret, invoked, contexts, service_log,
          dataset, fault, call, exit_code>>

AgentNames == {"planner", "data_agent", "insight_agent", "evaluator", "creative_generator"}

NoReturn == [status |-> "none"]

NoFault == [at |-> "none", in_stage |-> FALSE, msg |-> Message("", <<>>)]

NoCall == [op |-> "none"]

NoFile == [exists |-> FALSE, readable |-> FALSE, rows |-> <<>>, seen |-> FALSE]

\* AgentOrchestrator.__init__
InitOrchestrator ==
    /\ config \in Configs
    /\ pc = "idle"
    /\ execution_id = 0
    /\ clock = 1
    /\ execution_trace = <<>>
    /\ results = NoKeys
    /\ execution_history = [a \in AgentNames |-> <<>>]
    /\ log = <<>>
    /\ files = NoKeys
    /\ ret = NoReturn
    /\ invoked = <<>>
    /\ contexts = NoKeys
    /\ service_log = <<>>
    /\ dataset = NoFile
    /\ fault = NoFault
    /\ exit_code = <<>>

Init == InitOrchestrator /\ call = NoCall

\* f with key k set to x (a Python dict assignment)
Put(f, k, x) == [j \in DOMAIN f \cup {k} |-> IF j = k THEN x ELSE f[j]]

\* AgentOrchestrator._prepare_plan_context
PreparePlanContext ==
    [sample_mode |-> config.sample_mode,
     sample_size |-> config.sample_size,
     thresholds |-> EmptyDict]

\* AgentOrchestrator._prepare_data_context
PrepareDataContext ==
    [dataset_path |-> config.dataset_path,
     sample_mode |-> config.sample_mode,
     sample_size |-> config.sample_size,
     analysis_requirements |-> {"campaign_performance", "creative_performance",
                                "roas_timeline", "low_ctr_campaigns"}]

\* the insight context with the planner's status forwarded as well
PrepareInsightContextWithStatus(plan_result, data_result) ==
    [plan |-> CtxGet(plan_result, "plan", EmptyDict),
     data_summary |-> CtxGet(data_result, "data_summary", EmptyDict),
     analysis |-> CtxGet(data_result, "analysis", EmptyDict),
     status |-> Str(CtxGet(plan_result, "status", "unknown"))]

\* AgentOrchestrator._prepare_insight_context
PrepareInsightContext(plan_result, data_result) ==
    [plan |-> CtxGet(plan_result, "plan", EmptyDict),
     data_summary |-> CtxGet(data_result, "data_summary", EmptyDict),
     analysis |-> CtxGet(data_result, "analysis", EmptyDict)]

\* AgentOrchestrator._prepare_eval_context
PrepareEvalContext(insight_result, data_result) ==
    [hypotheses |-> CtxGet(insight_result, "hypotheses", EmptyDict),
     data_summary |-> CtxGet(data_result, "data_summary", EmptyDict),
     analysis |-> CtxGet(data_result, "analysis", EmptyDict)]

\* AgentOrchestrator._prepare_creative_context
PrepareCreativeContext(data_result) ==
    [analysis |-> CtxGet(data_result, "analysis", EmptyDict),
     data_summary |-> CtxGet(data_result, "data_summary", EmptyDict)]

\* the trace entry AgentOrchestrator._record_execution appends
TraceEntry(agent_name, result) ==
    [agent |-> agent_name,
     status |-> CtxGet(result, "status", "unknown"),
     timestamp |-> clock]

\* the trace restarted by every entry recorded
RecordExecutionReplacing(agent_name, result) ==
    /\ execution_trace' = <<TraceEntry(agent_name, result)>>
    /\ results' = Put(results, agent_name, result)
    /\ clock' = clock + 1

\* AgentOrchestrator._record_execution
RecordExecution(agent_name, result) ==
    /\ execution_trace' = Append(execution_trace, TraceEntry(agent_name, result))
    /\ results' = Put(results, agent_name, result)
    /\ clock' = clock + 1

\* len(x) raises on a number
LenRaises(x) == x.t \in {"num", "float", "mean"}

\* whether the progress line len(result.get(key, {}).get(inner, [])) raises
CountRaises(result, key, inner) ==
    \/ ~IsDict(CtxGet(result, key, EmptyDict))
    \/ LenRaises(Get(CtxGet(result, key, EmptyDict), inner, EmptyList))

\* the evaluator stage retried instead of followed by the creative stage
StageAfterRetry(stage) ==
    CASE stage = "planner" -> "data_agent"
      [] stage = "data_agent" -> "insight_agent"
      [] stage = "insight_agent" -> "evaluator"
      [] stage = "evaluator" -> "evaluator"
      [] OTHER -> "compile"

\* the order of the steps in the try block of execute: what follows a stage
StageAfter(stage) ==
    CASE stage = "planner" -> "data_agent"
      [] stage = "data_agent" -> "insight_agent"
      [] stage = "insight_agent" -> "evaluator"
      [] stage = "evaluator" -> "creative_generator"
      [] OTHER -> "compile"

\* the except branch with the execution id left out of the error record
AbortDropsId(at, in_stage, msg) ==
    /\ pc' = "returned"
    /\ fault' = [at |-> at, in_stage |-> in_stage, msg |-> msg]
    /\ log' = Append(log, "agent_error")
    /\ ret' = [status |-> "error", error |-> msg]

\* the except branch of execute: log the error, return the error record
Abort(at, in_stage, msg) ==
    /\ pc' = "returned"
    /\ fault' = [at |-> at, in_stage |-> in_stage, msg |-> msg]
    /\ log' = Append(log, "agent_error")
    /\ ret' = [status |-> "error", error |-> msg, execution_id |-> execution_id]

\* BaseAgent.log_execution
LogExecution(agent, result) ==
    execution_history' =
        [execution_history EXCEPT ![agent] = Append(@, [task |-> UserQuery, result |-> result])]

NoAttribute == Message("object has no attribute 'get'", <<>>)

\* one generation call of the named stage, as the history keeps it
ServiceCall(stage, outcome) == [stage |-> stage, fails |-> outcome.fails]

\* execute, up to the try block: the execution id and the start metrics
StartExecute ==
    /\ pc = "idle"
    /\ execution_id' = clock
    /\ clock' = clock + 1
    /\ log' = Append(log, "metrics")
    /\ pc' = "planner"
    /\ UNCHANGED <<config, execution_trace, results, execution_history, files, ret,
                   invoked, contexts, service_log, dataset, fault, call, exit_code>>

\* Step 1: the planner stage, its trace entry and its progress line
Plan ==
    /\ pc = "planner"
    /\ \E prompt_ok \in BOOLEAN, outcome \in ServiceOutcomes :
        LET plan_context == PreparePlanContext
            r == PlannerExecute(UserQuery, plan_context, prompt_ok, outcome)
        IN /\ invoked' = Append(invoked, "planner")
           /\ contexts' = Put(contexts, "planner", plan_context)
           /\ service_log' = IF prompt_ok
                             THEN Append(service_log, ServiceCall("planner", outcome))
                             ELSE service_log
           /\ IF r.raised
              THEN /\ Abort("planner", TRUE, r.msg)
                   /\ UNCHANGED <<execution_trace, results, clock, execution_history>>
              ELSE /\ RecordExecution("planner", r.val)
                   /\ IF r.val.status = "success"
                      THEN LogExecution("planner", r.val.plan)
                      ELSE UNCHANGED execution_history
                   /\ IF CountRaises(r.val, "plan", "subtasks")
                      THEN Abort("planner", FALSE, NoAttribute)
                      ELSE /\ pc' = StageAfter("planner")
                           /\ UNCHANGED <<fault, log, ret>>
    /\ UNCHANGED <<config, execution_id, files, dataset, call, exit_code>>

\* Step 2: the data stage, its trace entry and its progress line
LoadAnalyze ==
    /\ pc = "data_agent"
    /\ \E file \in DatasetFiles, prompt_ok \in BOOLEAN, outcome \in ServiceOutcomes :
        LET data_context == PrepareDataContext
            r == DataExecute(UserQuery, data_context, file, prompt_ok, outcome)
            called == file.exists /\ file.readable /\ prompt_ok
        IN /\ invoked' = Append(invoked, "data_agent")
           /\ contexts' = Put(contexts, "data_agent", data_context)
           /\ dataset' = [exists |-> file.exists, readable |-> file.readable,
                          rows |-> file.rows, seen |-> TRUE]
           /\ service_log' = IF called
                             THEN Append(service_log, ServiceCall("data_agent", outcome))
                             ELSE service_log
           /\ RecordExecution("data_agent", r.val)
           /\ IF r.val.status = "success"
              THEN LogExecution("data_agent", r.val.structured_findings)
              ELSE UNCHANGED execution_history
           /\ pc' = StageAfter("data_agent")
    /\ UNCHANGED <<config, execution_id, files, fault, log, ret, call, exit_code>>

\* Step 3: the insight stage, its trace entry and its progress line
Hypothesize ==
    /\ pc = "insight_agent"
    /\ \E prompt_ok \in BOOLEAN, outcome \in ServiceOutcomes :
        LET insight_context ==
                PrepareInsightContext(results["planner"], results["data_agent"])
            r == InsightExecute(UserQuery, insight_context, prompt_ok, outcome)
        IN /\ invoked' = Append(invoked, "insight_agent")
           /\ contexts' = Put(contexts, "insight_agent", insight_context)
           /\ service_log' = IF prompt_ok
                             THEN Append(service_log, ServiceCall("insight_agent", outcome))
                             ELSE service_log
           /\ IF r.raised
              THEN /\ Abort("insight_agent", TRUE, r.msg)
                   /\ UNCHANGED <<execution_trace, results, clock, execution_history>>
              ELSE /\ RecordExecution("insight_agent", r.val)
                   /\ IF r.val.status = "success"
                      THEN LogExecution("insight_agent", r.val.hypotheses)
                      ELSE UNCHANGED execution_history
                   /\ IF CountRaises(r.val, "hypotheses", "hypotheses")
                      THEN Abort("insight_agent", FALSE, NoAttribute)
                      ELSE /\ pc' = StageAfter("insight_agent")
                           /\ UNCHANGED <<fault, log, ret>>
    /\ UNCHANGED <<config, execution_id, files, dataset, call, exit_code>>

\* Step 4: the evaluator stage and its trace entry
Validate ==
    /\ pc = "evaluator"
    /\ \E prompt_ok \in BOOLEAN, outcome \in ServiceOutcomes :
        LET eval_context ==
                PrepareEvalContext(results["insight_agent"], results["data_agent"])
            r == EvaluatorExecute(UserQuery, eval_context, prompt_ok, outcome)
            called == prompt_ok /\ IsDict(eval_context.hypotheses)
        IN /\ invoked' = Append(invoked, "evaluator")
           /\ contexts' = Put(contexts, "evaluator", eval_context)
           /\ service_log' = IF called
                             THEN Append(service_log, ServiceCall("evaluator", outcome))
                             ELSE service_log
           /\ IF r.raised
              THEN /\ Abort("evaluator", TRUE, r.msg)
                   /\ UNCHANGED <<execution_trace, results, clock, execution_history>>
              ELSE /\ RecordExecution("evaluator", r.val)
                   /\ IF r.val.status = "success"
                      THEN LogExecution("evaluator", r.val.evaluation)
                      ELSE UNCHANGED execution_history
                   /\ pc' = StageAfter("evaluator")
                   /\ UNCHANGED <<fault, log, ret>>
    /\ UNCHANGED <<config, execution_id, files, dataset, call, exit_code>>

\* Step 5: the creative stage and its trace entry
Recommend ==
    /\ pc = "creative_generator"
    /\ \E prompt_ok \in BOOLEAN,
          outcomes \in [1..CreativeCalls(PrepareCreativeContext(results["data_agent"]), TRUE)
                        -> ServiceOutcomes] :
        LET creative_context == PrepareCreativeContext(results["data_agent"])
            r == CreativeExecute(UserQuery, creative_context, prompt_ok, outcomes)
            calls == CreativeCalls(creative_context, prompt_ok)
        IN /\ invoked' = Append(invoked, "creative_generator")
           /\ contexts' = Put(contexts, "creative_generator", creative_context)
           /\ service_log' = service_log \o
                  [i \in 1..calls |-> ServiceCall("creative_generator", outcomes[i])]
           /\ IF r.raised
              THEN /\ Abort("creative_generator", TRUE, r.msg)
                   /\ UNCHANGED <<execution_trace, results, clock, execution_history>>
              ELSE /\ RecordExecution("creative_generator", r.val)
                   /\ IF r.val.status = "success"
                      THEN LogExecution("creative_generator",
                                        [recommendations_count |-> r.val.count])
                      ELSE UNCHANGED execution_history
                   /\ pc' = StageAfter("creative_generator")
                   /\ UNCHANGED <<fault, log, ret>>
    /\ UNCHANGED <<config, execution_id, files, dataset, call, exit_code>>

\* the report's execution_trace is the orchestrator's own list, not a copy
TraceReference == [ref |-> "self.execution_trace"]

\* the report taking its status from the data stage's result
ReportDataStatus(plan, data, insights, evaluation, creatives) ==
    [execution_id |-> execution_id,
     timestamp |-> clock,
     query |-> UserQuery,
     status |-> CtxGet(data, "status", "unknown"),
     plan |-> CtxGet(plan, "plan", EmptyDict),
     data_summary |-> CtxGet(data, "data_summary", EmptyDict),
     insights |-> CtxGet(insights, "hypotheses", EmptyDict),
     evaluation |-> CtxGet(evaluation, "evaluation", EmptyDict),
     creative_recommendations |-> CtxGet(creatives, "recommendations", EmptyList),
     execution_trace |-> TraceReference]

\* the report AgentOrchestrator._compile_report assembles
Report(plan, data, insights, evaluation, creatives) ==
    [execution_id |-> execution_id,
     timestamp |-> clock,
     query |-> UserQuery,
     status |-> "success",
     plan |-> CtxGet(plan, "plan", EmptyDict),
     data_summary |-> CtxGet(data, "data_summary", EmptyDict),
     insights |-> CtxGet(insights, "hypotheses", EmptyDict),
     evaluation |-> CtxGet(evaluation, "evaluation", EmptyDict),
     creative_recommendations |-> CtxGet(creatives, "recommendations", EmptyList),
     execution_trace |-> TraceReference]

\* x[:n] raises on a dict or a number
SliceRaises(x) == x.t \in {"dict", "num", "float", "mean"}

\* iterating x raises on a number
IterRaises(x) == x.t \in {"num", "float", "mean"}

\* the elements of x[:n], for a list (a string yields characters, no records)
Sliced(x, n) == IF IsList(x) THEN FirstN(x, n) ELSE <<>>

\* the number of validated hypotheses the markdown report shows
ShownEvaluations == 3

\* the number of campaigns whose creatives the markdown report shows
ShownCampaigns == 2

\* whether one entry of hypothesis_evaluations raises in the markdown report:
\* eval_item.get needs a dict and the :.2% format needs a number
EvaluationItemRaises(item) ==
    ~IsDict(item) \/ Get(item, "confidence_score", Num(0)).t \notin {"num", "float"}

\* whether one entry of creative_recommendations raises in the markdown report
CreativeItemRaises(rec) ==
    /\ IsDict(rec)
    /\ "creative_recommendations" \in DOMAIN rec.v
    /\ \/ SliceRaises(rec.v["creative_recommendations"])
       \/ \E i \in 1..Len(Sliced(rec.v["creative_recommendations"], 1)) :
             ~IsDict(rec.v["creative_recommendations"].v[i])
       \/ /\ rec.v["creative_recommendations"].t \in {"str", "lit"}
          /\ Truthy(rec.v["creative_recommendations"])

\* whether AgentOrchestrator._generate_markdown_report raises while it renders
RenderRaises(report) ==
    \/ ~IsDict(report.data_summary)
    \/ ~IsDict(report.insights)
    \/ LenRaises(Get(report.insights, "hypotheses", EmptyList))
    \/ LenRaises(report.creative_recommendations)
    \/ ~IsDict(report.evaluation)
    \/ LET evals == Get(report.evaluation, "hypothesis_evaluations", EmptyList)
           actions == Get(report.evaluation, "recommended_actions", EmptyList)
           recs == report.creative_recommendations
       IN \/ SliceRaises(evals)
          \/ evals.t \in {"str", "lit"} /\ Truthy(evals)
          \/ \E i \in 1..Len(Sliced(evals, ShownEvaluations)) :
                EvaluationItemRaises(evals.v[i])
          \/ IterRaises(actions)
          \/ SliceRaises(recs)
          \/ \E i \in 1..Len(Sliced(recs, ShownCampaigns)) : CreativeItemRaises(recs.v[i])

\* the steps of _save_outputs at which the file system may fail
IoFailures == {"none", "mkdir", "insights", "creatives", "report"}

\* the artifacts _save_outputs has written when it ends or raises
Written(report, io) ==
    CASE io = "mkdir" -> {}
      [] io = "insights" -> {}
      [] io = "creatives" -> {"insights"}
      [] io = "report" -> {"insights", "creatives"}
      [] OTHER -> IF RenderRaises(report) THEN {"insights", "creatives"}
                  ELSE {"insights", "creatives", "report"}

\* what each artifact holds
Artifact(report, name) ==
    CASE name = "insights" -> report.insights
      [] name = "creatives" -> report.creative_recommendations
      [] OTHER -> [t |-> "markdown", v |-> report.execution_id]

\* Step 6: _compile_report with _save_outputs, then the return of the report
Compile ==
    /\ pc = "compile"
    /\ \E io \in IoFailures :
        LET report == Report(results["planner"], results["data_agent"],
                             results["insight_agent"], results["evaluator"],
                             results["creative_generator"])
        IN /\ files' = [n \in DOMAIN files \cup Written(report, io) |->
                           IF n \in Written(report, io) THEN Artifact(report, n)
                           ELSE files[n]]
           /\ clock' = clock + 1
           /\ invoked' = Append(invoked, "compile")
           /\ IF io # "none" \/ RenderRaises(report)
              THEN Abort("compile", FALSE, Message("report could not be saved", <<io>>))
              ELSE /\ pc' = "returned"
                   /\ ret' = report
                   /\ UNCHANGED <<fault, log>>
    /\ UNCHANGED <<config, execution_id, execution_trace, results, execution_history,
                   contexts, service_log, dataset, call, exit_code>>

Next == StartExecute \/ Plan \/ LoadAnalyze \/ Hypothesize \/ Validate \/ Recommend \/ Compile

Spec == Init /\ [][Next]_vars

(***************************************************************************)
(* Further calls of execute on the same orchestrator                       *)
(***************************************************************************)
\* the number of calls of execute the model follows on one orchestrator
MaxRuns == 2

\* the calls of execute so far: each logs its start metrics once
RunsStarted == Cardinality({i \in 1..Len(log) : log[i] = "metrics"})

\* the caller of the model calls execute again only after a run that returned
\* a report while the generation service was down on a loaded dataset
RepeatAfter ==
    /\ ret.status = "success"
    /\ dataset.rows = Dataset3
    /\ Len(service_log) = 4
    /\ \A i \in 1..Len(service_log) : service_log[i].fails

\* execute called again: a new execution id and the start metrics; the trace
\* and the results of the orchestrator are kept as they are (only __init__
\* sets them), the histories of the run start anew, and the caller still
\* holds the report it got
ExecuteAgain ==
    /\ pc = "returned"
    /\ RunsStarted < MaxRuns
    /\ RepeatAfter
    /\ execution_id' = clock
    /\ clock' = clock + 1
    /\ log' = Append(log, "metrics")
    /\ pc' = "planner"
    /\ invoked' = <<>>
    /\ contexts' = NoKeys
    /\ service_log' = <<>>
    /\ dataset' = NoFile
    /\ fault' = NoFault
    /\ UNCHANGED <<config, execution_trace, results, execution_history, files, ret, call, exit_code>>

RerunNext == Next \/ ExecuteAgain

RerunSpec == Init /\ [][RerunNext]_vars

(***************************************************************************)
(* The command line: main builds the orchestrator, calls execute once and  *)
(* exits.                                                                  *)
(***************************************************************************)
\* no configuration loaded
NoConfig == [dataset_path |-> "", sample_mode |-> FALSE, sample_size |-> 0]

\* what config/config.yaml resolves to: no file, a file that cannot be read
\* or parsed into sections, or a configuration document
ConfigFiles ==
    {[exists |-> FALSE, readable |-> FALSE, data |-> NoConfig],
     [exists |-> TRUE, readable |-> FALSE, data |-> NoConfig]}
    \cup {[exists |-> TRUE, readable |-> TRUE, data |-> c] : c \in Configs}

\* the process at the start of main
InitMain ==
    /\ config = NoConfig
    /\ pc = "main"
    /\ execution_id = 0
    /\ clock = 1
    /\ execution_trace = <<>>
    /\ results = NoKeys
    /\ execution_history = [a \in AgentNames |-> <<>>]
    /\ log = <<>>
    /\ files = NoKeys
    /\ ret = NoReturn
    /\ invoked = <<>>
    /\ contexts = NoKeys
    /\ service_log = <<>>
    /\ dataset = NoFile
    /\ fault = NoFault
    /\ call = NoCall
    /\ exit_code = <<>>

\* the constructor goes on with no configuration when the file is missing
ConstructLenient ==
    /\ pc = "main"
    /\ \E file \in ConfigFiles :
        IF file.exists /\ file.readable
        THEN /\ config' = file.data
             /\ pc' = "idle"
             /\ UNCHANGED <<fault, exit_code>>
        ELSE /\ fault' = [at |-> "init", in_stage |-> FALSE,
                          msg |-> Message("Config file not found: ", <<"config/config.yaml">>)]
             /\ config' = [dataset_path |-> DefaultDatasetPath, sample_mode |-> FALSE,
                           sample_size |-> DefaultSampleSize]
             /\ pc' = "idle"
             /\ UNCHANGED exit_code
    /\ UNCHANGED <<execution_id, clock, execution_trace, results, execution_history, log,
                   files, ret, invoked, contexts, service_log, dataset, call>>

\* AgentOrchestrator("config/config.yaml") in main: Config.load raises on a
\* missing or unreadable file, nothing in main catches it, and the process
\* ends with the exit status 1 of an uncaught exception
Construct ==
    /\ pc = "main"
    /\ \E file \in ConfigFiles :
        IF file.exists /\ file.readable
        THEN /\ config' = file.data
             /\ pc' = "idle"
             /\ UNCHANGED <<fault, exit_code>>
        ELSE /\ fault' = [at |-> "init", in_stage |-> FALSE,
                          msg |-> Message("Config file not found: ", <<"config/config.yaml">>)]
             /\ pc' = "exited"
             /\ exit_code' = <<1>>
             /\ UNCHANGED config
    /\ UNCHANGED <<execution_id, clock, execution_trace, results, execution_history, log,
                   files, ret, invoked, contexts, service_log, dataset, call>>

\* the sys.exit(1) of main forgotten
ExitAlwaysZero ==
    /\ pc = "returned"
    /\ pc' = "exited"
    /\ exit_code' = <<0>>
    /\ UNCHANGED <<config, execution_id, clock, execution_trace, results,
                   execution_history, log, files, ret, invoked, contexts, service_log,
                   dataset, fault, call>>

\* the end of main: status success falls off the end of main (exit status
\* 0), anything else is sys.exit(1)
Exit ==
    /\ pc = "returned"
    /\ pc' = "exited"
    /\ exit_code' = IF CtxGet(ret, "status", "none") = "success" THEN <<0>> ELSE <<1>>
    /\ UNCHANGED <<config, execution_id, clock, execution_trace, results,
                   execution_history, log, files, ret, invoked, contexts, service_log,
                   dataset, fault, call>>

MainNext == Construct \/ Next \/ Exit

MainSpec == InitMain /\ [][MainNext]_vars

(***************************************************************************)
(* The agents and the extractor called on their own, as a caller of        *)
(* execute or of generate_json may call them.                              *)
(***************************************************************************)
\* the number of characters the longest answer of the model has
MaxTextLen == 202

\* the largest number of low-CTR campaigns in a context of the model
MaxLowCtr == 4

\* TextJunk, padded to n characters
JunkOfLen(n) == TextJunk \o [i \in 1..(n - Len(TextJunk)) |-> "x"]

\* a record in an unlabelled fence, after some prose
TextFencedRecord ==
    <<"o", "k", ":", "\n", BT, BT, BT, "\n", "{", Q, "a", Q, ":", "1", "}", "\n", BT, BT, BT>>

\* a record in a labelled fence
TextJsonFencedRecord ==
    <<BT, BT, BT, "j", "s", "o", "n", "\n", "{", Q, "b", Q, ":", "2", "}", "\n", BT, BT, BT,
      " ", "d", "o", "n", "e">>

\* answers that are not JSON and hold no fence
UnfencedJunkTexts ==
    {TextJunk} \cup {JunkOfLen(n) : n \in (PrefixBound - 1)..MaxTextLen}

\* an unlabelled fence whose interior does not parse
TextPlainFencedJunk ==
    <<BT, BT, BT, "\n", "{", "a", ":", "}", "\n", BT, BT, BT>>

\* answers from which no record can be recovered
UnrecoverableTexts == UnfencedJunkTexts \cup {TextFencedJunk, TextPlainFencedJunk}

ExtractorTexts ==
    PipelineTexts \cup UnrecoverableTexts \cup {TextFencedRecord, TextJsonFencedRecord}

\* what the generation service may do on a direct call of an agent
StageOutcomes ==
    {ServiceFails, ServiceAnswers(TextRecord), ServiceAnswers(TextJunk),
     ServiceAnswers(TextFencedJunk)}

\* one entry of analysis['low_ctr_campaigns'], as to_dict('records') yields it
LowCtrRecord(i) ==
    Dict([campaign_name |-> Lit(<<"Camp", i>>), adset_name |-> Lit(<<"Adset", i>>),
          ctr |-> Float(<<"0.00", i>>), creative_message |-> Lit("Comfort first")])

\* the context of a creative stage whose analysis names n low-CTR campaigns
LowCtrContext(n) ==
    [analysis |-> Dict([low_ctr_count |-> Num(n),
                        low_ctr_campaigns |-> List([i \in 1..n |-> LowCtrRecord(i)])]),
     data_summary |-> GenerateSummary(Dataset3)]

PlannerContexts ==
    {[sample_mode |-> c.sample_mode, sample_size |-> c.sample_size,
      thresholds |-> EmptyDict] : c \in Configs}

InsightContexts ==
    {[plan |-> plan, data_summary |-> GenerateSummary(Dataset3), analysis |-> EmptyDict] :
        plan \in {FallbackPlan(UserQuery, NoKeys), EmptyDict}}

EvaluatorContexts ==
    {[hypotheses |-> h, data_summary |-> GenerateSummary(Dataset3), analysis |-> EmptyDict] :
        h \in {FallbackHypotheses(UserQuery, NoKeys),
               Dict([hypotheses |-> List(<<Dict([id |-> Str(<<"a">>)])>>)]),
               EmptyDict}}

CreativeContexts == {LowCtrContext(n) : n \in 0..MaxLowCtr}

\* a direct call and what it returned or raised
Called(op, context, prompt_ok, outcomes, result) ==
    [op |-> op, context |-> context, prompt_ok |-> prompt_ok, outcomes |-> outcomes,
     result |-> result]

Untouched ==
    UNCHANGED <<config, pc, execution_id, clock, execution_trace, results,
                execution_history, log, files, ret, invoked, contexts, service_log,
                dataset, fault, exit_code>>

CallPlanner ==
    /\ \E context \in PlannerContexts, prompt_ok \in BOOLEAN, outcome \in StageOutcomes :
        call' = Called("planner", context, prompt_ok, <<outcome>>,
                       PlannerExecute(UserQuery, context, prompt_ok, outcome))
    /\ Untouched

CallInsight ==
    /\ \E context \in InsightContexts, prompt_ok \in BOOLEAN, outcome \in StageOutcomes :
        call' = Called("insight_agent", context, prompt_ok, <<outcome>>,
                       InsightExecute(UserQuery, context, prompt_ok, outcome))
    /\ Untouched

CallEvaluator ==
    /\ \E context \in EvaluatorContexts, prompt_ok \in BOOLEAN, outcome \in StageOutcomes :
        call' = Called("evaluator", context, prompt_ok, <<outcome>>,
                       EvaluatorExecute(UserQuery, context, prompt_ok, outcome))
    /\ Untouched

CallCreative ==
    /\ \E context \in CreativeContexts, prompt_ok \in BOOLEAN :
        \E outcomes \in [1..CreativeCalls(context, prompt_ok) -> StageOutcomes] :
            call' = Called("creative_generator", context, prompt_ok, outcomes,
                           CreativeExecute(UserQuery, context, prompt_ok, outcomes))
    /\ Untouched

CallGenerateJson ==
    /\ \E outcome \in {ServiceFails} \cup {ServiceAnswers(t) : t \in ExtractorTexts} :
        call' = Called("generate_json", NoKeys, TRUE, <<outcome>>, GenerateJson(outcome))
    /\ Untouched

\* a small record
TextSmallRecord == <<"{", Q, "a", Q, ":", "1", "}">>

\* the empty record
TextEmptyRecord == <<"{", "}">>

\* a record one of whose strings holds a fence marker
TextRecordWithFence == <<"{", Q, "a", Q, ":", Q, BT, BT, BT, Q, "}">>

\* texts that are one valid structured block
BlockTexts == {TextRecord, TextSmallRecord, TextEmptyRecord, TextRecordWithFence}

\* the prose an answer may put before a fenced block
Proses == {<<>>, <<"o", "k", ":", "\n">>}

\* a block inside a fence labelled json, after some prose
WrapLabelled(prose, block) == prose \o JsonFence \o <<"\n">> \o block \o <<"\n">> \o Fence

\* a block inside an unlabelled fence, after some prose
WrapPlain(prose, block) == prose \o Fence \o <<"\n">> \o block \o <<"\n">> \o Fence

\* what the extraction makes of the three wrapping forms of one block
Wrappings(bare, labelled, plain) == [bare |-> bare, labelled |-> labelled, plain |-> plain]

\* generate_json on one block given bare, in a labelled and in an unlabelled fence
CallWrappings ==
    /\ \E block \in BlockTexts, prose \in Proses :
        call' = Called("wrappings", NoKeys, TRUE,
                       <<ServiceAnswers(block), ServiceAnswers(prose)>>,
                       Wrappings(GenerateJson(ServiceAnswers(block)),
                                 GenerateJson(ServiceAnswers(WrapLabelled(prose, block))),
                                 GenerateJson(ServiceAnswers(WrapPlain(prose, block)))))
    /\ Untouched

\* an answer with an unlabelled fence around one block and a labelled fence
\* around another, the unlabelled one first
PlainThenLabelled(prose, decoy, block) ==
    WrapPlain(prose, decoy) \o <<"\n">> \o WrapLabelled(<<>>, block)

\* the same two fences, the labelled one first
LabelledThenPlain(prose, decoy, block) ==
    WrapLabelled(prose, block) \o <<"\n">> \o WrapPlain(<<>>, decoy)

\* what the extraction makes of the two orders
MixedFences(plain_first, labelled_first) ==
    [plain_first |-> plain_first, labelled_first |-> labelled_first]

\* generate_json on answers that hold both kinds of fence
CallMixedFences ==
    /\ \E block \in BlockTexts, decoy \in BlockTexts, prose \in Proses :
        call' = Called("mixed_fences", NoKeys, TRUE,
                       <<ServiceAnswers(block), ServiceAnswers(decoy), ServiceAnswers(prose)>>,
                       MixedFences(
                           GenerateJson(ServiceAnswers(PlainThenLabelled(prose, decoy, block))),
                           GenerateJson(ServiceAnswers(LabelledThenPlain(prose, decoy, block)))))
    /\ Untouched

StageNext ==
    \/ CallPlanner \/ CallInsight \/ CallEvaluator \/ CallCreative \/ CallGenerateJson
    \/ CallWrappings \/ CallMixedFences

StageSpec == Init /\ [][StageNext]_vars

(***************************************************************************)
(* The loader called on its own, on small files.                           *)
(***************************************************************************)
MaxRows == 3

\* a day on which nothing was spent and nothing was shown
IdleRow ==
    Row("Camp D", "Adset 4", "Stay dry", "Image", "Broad", "UK",
        3, 0, 0, 0, 0, 0, 0, 0)

\* a day with impressions, clicks and revenue but no spend
UnpaidRow ==
    Row("Camp E", "Adset 5", "Free trial", "Video", "Broad", "UK",
        4, 0, 500, 5, 1, 10, 10, 0)

LoaderRows == {Dataset3[i] : i \in 1..Len(Dataset3)} \cup {IdleRow, UnpaidRow}

RECURSIVE FramesOf(_, _)
FramesOf(rows, n) ==
    IF n = 0 THEN {<<>>}
    ELSE LET shorter == FramesOf(rows, n - 1)
         IN shorter \cup {Append(f, r) : f \in {g \in shorter : Len(g) = n - 1}, r \in rows}

\* the files the loader is pointed at
LoaderFiles ==
    {MissingFile, UnreadableFile, CsvFile(Dataset3)}
    \cup {CsvFile(f) : f \in FramesOf(LoaderRows, MaxRows)}

\* the thresholds asked for: the agent's, one below every ctr, one above
Thresholds == {LowCtrThreshold, LowCtrThreshold - 2, LowCtrThreshold + 4}

\* a call of a loader just constructed (no frame loaded yet), the frame it
\* loaded and what it returned
LoaderCalled(op, file, conf, threshold, df, result) ==
    [op |-> op, file |-> file, conf |-> conf, threshold |-> threshold, df |-> df,
     result |-> result]

\* the loader's own first step: load() when no frame is loaded yet
LoadOrRaise(file, conf) ==
    IF ~file.exists
    THEN Raise("FileNotFoundError", Message("Dataset not found: ", <<conf.dataset_path>>))
    ELSE IF ~file.readable
    THEN Raise("ParserError", Message("Error tokenizing data", <<>>))
    ELSE Return(Load(file.rows, conf.sample_mode, conf.sample_size))

FilterLowCtrCall(file, conf, threshold, loaded) ==
    LoaderCalled("filter_low_ctr", file, conf, threshold, loaded,
                 IF loaded.raised THEN loaded
                 ELSE Return(FilterLowCtr(loaded.val, threshold)))

CallFilterLowCtr ==
    /\ call = NoCall
    /\ \E file \in LoaderFiles, conf \in Configs, threshold \in Thresholds :
        call' = FilterLowCtrCall(file, conf, threshold, LoadOrRaise(file, conf))
    /\ Untouched

RoasTimelineCall(file, conf, loaded) ==
    LoaderCalled("get_roas_timeline", file, conf, 0, loaded,
                 IF loaded.raised THEN loaded
                 ELSE Return(GetRoasTimeline(loaded.val)))

CallRoasTimeline ==
    /\ call = NoCall
    /\ \E file \in LoaderFiles, conf \in Configs :
        call' = RoasTimelineCall(file, conf, LoadOrRaise(file, conf))
    /\ Untouched

MaxLoads == 2

\* the settings a loader is constructed with: the configured ones, and the
\* constructor's defaults (no sampling)
LoaderSettings ==
    Configs \cup {[dataset_path |-> DefaultDatasetPath, sample_mode |-> FALSE,
                   sample_size |-> DefaultSampleSize]}

\* a second load adding the file's rows to the frame already held
ReloadAppending(held, file, conf) ==
    IF held.raised \/ ~file.exists \/ ~file.readable THEN LoadOrRaise(file, conf)
    ELSE Return(held.val \o Load(file.rows, conf.sample_mode, conf.sample_size))

\* load() on a loader that holds a frame already (or a failed load): self.df
\* is assigned from the file, whatever it held
Reload(held, file, conf) == LoadOrRaise(file, conf)

\* get_summary() after a load that returned
Summarize(loaded) == IF loaded.raised THEN loaded ELSE Return(GenerateSummary(loaded.val))

\* load() and get_summary(), as often as the loader was asked
LoadCalled(file, conf, loads, loaded, first, summary) ==
    [op |-> "load", file |-> file, conf |-> conf, loads |-> loads, df |-> loaded,
     first |-> first, result |-> summary]

FirstLoad(file, conf, loaded) ==
    LoadCalled(file, conf, 1, loaded, Summarize(loaded), Summarize(loaded))

CallLoad ==
    /\ call = NoCall
    /\ \E file \in LoaderFiles, conf \in LoaderSettings :
        call' = FirstLoad(file, conf, LoadOrRaise(file, conf))
    /\ Untouched

NextLoad(before, loaded) ==
    LoadCalled(before.file, before.conf, before.loads + 1, loaded, before.first,
               Summarize(loaded))

\* load() and get_summary() once more, the file and the settings unchanged
CallLoadAgain ==
    /\ call.op = "load"
    /\ call.loads < MaxLoads
    /\ call' = NextLoad(call, Reload(call.df, call.file, call.conf))
    /\ Untouched

LoaderNext == CallFilterLowCtr \/ CallRoasTimeline \/ CallLoad \/ CallLoadAgain

LoaderSpec == Init /\ [][LoaderNext]_vars

(***************************************************************************)
(* The claims                                                              *)
(***************************************************************************)
\* the order of the steps of a run, as the specification names them
StageOrder ==
    <<"planner", "data_agent", "insight_agent", "evaluator", "creative_generator",
      "compile">>

ReasoningRoles == {"planner", "insight_agent", "evaluator", "creative_generator"}

Statuses == {"success", "partial", "error"}

\* the payload of the result of a direct call that returned
PayloadOf(c) ==
    CASE c.op = "planner" -> c.result.val.plan
      [] c.op = "insight_agent" -> c.result.val.hypotheses
      [] c.op = "evaluator" -> c.result.val.evaluation
      [] OTHER -> c.result.val.recommendations

\* the fallback record of the role of a direct call
FallbackOf(c) ==
    CASE c.op = "planner" -> FallbackPlan(UserQuery, c.context)
      [] c.op = "insight_agent" -> FallbackHypotheses(UserQuery, c.context)
      [] c.op = "evaluator" ->
            FallbackEvaluation(Get(c.context.hypotheses, "hypotheses", EmptyList))
      [] OTHER ->
            List([i \in 1..Min(CreativeCampaigns,
                               Len(c.context.analysis.v["low_ctr_campaigns"].v)) |->
                    FallbackCreative(c.context.analysis.v["low_ctr_campaigns"].v[i])])

\* the generation service was called and raised on every call
GenerationFailed(c) ==
    /\ c.prompt_ok
    /\ Len(c.outcomes) > 0
    /\ \A i \in 1..Len(c.outcomes) : c.outcomes[i].fails

\* the generation service answered every call with a text that holds no record
ExtractionFailed(c) ==
    /\ c.prompt_ok
    /\ Len(c.outcomes) > 0
    /\ \A i \in 1..Len(c.outcomes) :
          ~c.outcomes[i].fails /\ c.outcomes[i].text \in UnrecoverableTexts

\* C1: a stage result with status partial never aborts the run: the step after
\* the partial stage is entered, the later contexts that read the stage hold
\* its fallback payload, and a run in which no stage raises reaches Compile
C1_PartialNeverAborts ==
    \A i \in 1..Len(execution_trace) :
        execution_trace[i].status = "partial" =>
            /\ (i < Len(invoked) \/ pc = StageAfter(execution_trace[i].agent))
            /\ (execution_trace[i].agent = "planner" /\ "insight_agent" \in DOMAIN contexts)
                  => contexts["insight_agent"].plan = FallbackPlan(UserQuery, NoKeys)
            /\ (execution_trace[i].agent = "insight_agent" /\ "evaluator" \in DOMAIN contexts)
                  => contexts["evaluator"].hypotheses = FallbackHypotheses(UserQuery, NoKeys)
            /\ (pc = "returned" /\ ~fault.in_stage) => invoked[Len(invoked)] = "compile"

\* C2: when the generation service raises during a reasoning stage, execute
\* does not raise and returns status partial with the role's non-empty
\* fallback record as payload
C2_GenerationFailureGivesPartial ==
    (call.op \in ReasoningRoles /\ GenerationFailed(call)) =>
        /\ ~call.result.raised
        /\ call.result.val.status = "partial"
        /\ PayloadOf(call) = FallbackOf(call)
        /\ Truthy(PayloadOf(call))

\* C3: an exception raised out of a stage aborts the run at once: no later
\* step is entered, nothing is compiled or written, and execute returns the
\* record of status error, the message and the execution id
C3_StageExceptionAborts ==
    fault.in_stage =>
        /\ pc = "returned"
        /\ invoked[Len(invoked)] = fault.at
        /\ fault.at # "compile"
        /\ Len(execution_trace) = Len(invoked) - 1
        /\ files = NoKeys
        /\ DOMAIN ret = {"status", "error", "execution_id"}
        /\ ret.status = "error"
        /\ ret.error = fault.msg
        /\ ~MessageEmpty(ret.error)
        /\ ret.execution_id = execution_id

C3_Witness ==
    /\ fault.in_stage
    /\ fault.at = "evaluator"
    /\ pc = "returned"
    /\ ret.status = "error"

\* C4: a dataset path that does not exist aborts the run in the data stage: no
\* later stage runs, execute returns status error, and no report is compiled
\* or written
C4_MissingDatasetAborts ==
    (dataset.seen /\ ~dataset.exists) =>
        /\ \A i \in 1..Len(invoked) : invoked[i] \in {"planner", "data_agent"}
        /\ files = NoKeys
        /\ pc = "returned" => ret.status = "error"

\* C5: with a loadable dataset of three campaigns and a generation service that
\* fails on every call, execute returns status success, all five stage results
\* are partial and every section of the report is non-empty
C5_FailingServiceRun ==
    (/\ pc = "returned"
     /\ fault = NoFault
     /\ dataset.exists /\ dataset.readable /\ dataset.rows = Dataset3
     /\ config.sample_size >= Len(Dataset3)
     /\ {service_log[i].stage : i \in 1..Len(service_log)} =
            {"planner", "data_agent", "insight_agent", "evaluator"}
     /\ \A i \in 1..Len(service_log) : service_log[i].fails) =>
        /\ ret.status = "success"
        /\ \A a \in AgentNames : results[a].status = "partial"
        /\ Truthy(ret.plan)
        /\ Truthy(ret.data_summary)
        /\ Truthy(ret.insights)
        /\ Truthy(ret.evaluation)
        /\ Truthy(ret.creative_recommendations)

C7_RecordedStatuses ==
    /\ \A i \in 1..Len(execution_trace) : execution_trace[i].status \in Statuses
    /\ \A a \in DOMAIN results : results[a].status \in Statuses

\* C8: whenever Hypothesize, Validate or Recommend is invoked, every field of
\* its context that is taken from an earlier stage result (plan, data_summary,
\* analysis, hypotheses) is non-empty
C8_NoEmptyContextField ==
    \A a \in DOMAIN contexts \cap {"insight_agent", "evaluator", "creative_generator"} :
        \A k \in DOMAIN contexts[a] \cap {"plan", "data_summary", "analysis", "hypotheses"} :
            Truthy(contexts[a][k])

\* C9: when the generation service answers a reasoning stage with a text that
\* holds no record, the stage does not raise and returns status partial with
\* the role's fallback payload and a non-empty error message
C9_ExtractionFailureGivesPartial ==
    (call.op \in ReasoningRoles /\ ExtractionFailed(call)) =>
        /\ ~call.result.raised
        /\ call.result.val.status = "partial"
        /\ PayloadOf(call) = FallbackOf(call)
        /\ "error" \in DOMAIN call.result.val
        /\ ~MessageEmpty(call.result.val.error)

\* C10: on a text that is no JSON and holds no fence, generate_json raises the
\* extraction error whose message quotes the first 200 characters of the text,
\* the whole text when it is shorter, and no more
C10_ErrorQuotesBoundedPrefix ==
    (/\ call.op = "generate_json"
     /\ ~call.outcomes[1].fails
     /\ call.outcomes[1].text \in UnfencedJunkTexts) =>
        /\ call.result.raised
        /\ call.result.type = "ValueError"
        /\ call.result.msg.text = "Could not parse JSON from response: "
        /\ Len(call.result.msg.quoted) <= 200
        /\ Len(call.result.msg.quoted) = Min(200, Len(call.outcomes[1].text))
        /\ \A i \in 1..Len(call.result.msg.quoted) :
              call.result.msg.quoted[i] = call.outcomes[1].text[i]

C10_Witness ==
    /\ call.op = "generate_json"
    /\ ~call.outcomes[1].fails
    /\ call.outcomes[1].text \in UnfencedJunkTexts
    /\ Len(call.outcomes[1].text) > 200
    /\ call.result.raised
    /\ Len(call.result.msg.quoted) = 200

\* C11: whenever every extraction attempt fails, also when a labelled or an
\* unlabelled fence is present whose interior does not parse, generate_json
\* raises the extraction error that quotes the first 200 characters of the text
C11_AllFailuresQuotePrefix ==
    (/\ call.op = "generate_json"
     /\ ~call.outcomes[1].fails
     /\ call.outcomes[1].text \in UnrecoverableTexts) =>
        /\ call.result.raised
        /\ call.result.type = "ValueError"
        /\ call.result.msg.quoted =
              SubSeq(call.outcomes[1].text, 1, Min(200, Len(call.outcomes[1].text)))

\* C12: a text that is one valid structured block yields the same parsed
\* record whether it is given bare, inside a fence labelled json or inside an
\* unlabelled fence
C12_WrappingFormsAgree ==
    call.op = "wrappings" =>
        /\ ~call.result.bare.raised
        /\ ~call.result.labelled.raised
        /\ ~call.result.plain.raised
        /\ call.result.labelled.val = call.result.bare.val
        /\ call.result.plain.val = call.result.bare.val

\* the low-CTR campaigns of the context of a direct call of the creative stage
CampaignsOf(c) == c.context.analysis.v["low_ctr_campaigns"].v

\* C13: on a list of n low-CTR campaigns the creative stage makes exactly
\* min(n, 3) generation calls and returns exactly min(n, 3) recommendations,
\* recommendation i being the answer to the call for campaign i (its fallback
\* names campaign i); the bound is 3 whatever the configuration says
C13_FirstThreeCampaigns ==
    (call.op = "creative_generator" /\ call.prompt_ok) =>
        /\ ~call.result.raised
        /\ Len(call.outcomes) = Min(Len(CampaignsOf(call)), 3)
        /\ Len(call.result.val.recommendations.v) = Min(Len(CampaignsOf(call)), 3)
        /\ \A i \in 1..Len(call.result.val.recommendations.v) :
              IF call.outcomes[i].fails \/ call.outcomes[i].text \in UnrecoverableTexts
              THEN /\ call.result.val.recommendations.v[i] =
                          FallbackCreative(CampaignsOf(call)[i])
                   /\ call.result.val.recommendations.v[i].v["low_performer_analysis"]
                          .v["campaign_name"] = Lit(<<"Camp", i>>)
              ELSE call.result.val.recommendations.v[i] =
                       JsonLoads(call.outcomes[i].text).val

C13_Witness ==
    /\ call.op = "creative_generator"
    /\ call.prompt_ok
    /\ config.sample_size = SmallSampleSize
    /\ Len(CampaignsOf(call)) = 4
    /\ ~call.result.raised
    /\ Len(call.result.val.recommendations.v) = 3
    /\ call.outcomes[2].fails
    /\ ~call.outcomes[3].fails

\* C14: whenever execute returns status error, none of the three artifacts
\* (insights file, creatives file, markdown report) was written in that run
C14_ErrorLeavesNoArtifact ==
    (pc = "returned" /\ ret.status = "error") => files = NoKeys

\* what a report the caller holds shows: its execution_trace is the list
\* the orchestrator keeps, read through the reference
ReportContent == [ret EXCEPT !.execution_trace = execution_trace]

\* C15: once a report is compiled and returned, no later operation changes
\* its content, its execution trace included, a further call of execute on
\* the same orchestrator neither
C15_ReportImmutable ==
    [][(ret.status = "success" /\ ret' = ret) => ReportContent' = ReportContent]_vars

\* C16: main exits with code 0 exactly when the result execute returned has
\* status success, and with code 1 in every other case
C16_ExitCode ==
    /\ pc # "exited" => exit_code = <<>>
    /\ pc = "exited" =>
          /\ exit_code \in {<<0>>, <<1>>}
          /\ exit_code = <<0>> <=> ret.status = "success"

C16_Witness ==
    /\ pc = "exited"
    /\ ret.status = "error"
    /\ exit_code = <<1>>

\* C17: when the configuration file is missing or unreadable the run is
\* aborted before any stage: no stage is invoked, no generation call is made,
\* no trace entry is recorded and no artifact is written
C17_NoConfigNoStage ==
    fault.at = "init" =>
        /\ pc = "exited"
        /\ invoked = <<>>
        /\ service_log = <<>>
        /\ execution_trace = <<>>
        /\ results = NoKeys
        /\ files = NoKeys
        /\ ~dataset.seen

C17_Witness ==
    /\ fault.at = "init"
    /\ pc = "exited"
    /\ exit_code = <<1>>

\* the positions of the loaded frame whose ctr is strictly below the threshold
BelowThreshold == {i \in 1..Len(call.df.val) : call.df.val[i].ctr < call.threshold}

\* C18: filter_low_ctr returns exactly the loaded records whose ctr is
\* strictly below the threshold, in their loaded order; a record whose ctr
\* equals the threshold is excluded
C18_StrictlyBelowInOrder ==
    (call.op = "filter_low_ctr" /\ ~call.df.raised) =>
        /\ ~call.result.raised
        /\ Len(call.result.val) = Cardinality(BelowThreshold)
        /\ \A k \in 1..Len(call.result.val) :
              /\ call.result.val[k].ctr # call.threshold
              /\ call.result.val[k] =
                    call.df.val[CHOOSE i \in BelowThreshold :
                                   Cardinality({j \in BelowThreshold : j <= i}) = k]

\* ctr 0.010, 0.012 and 0.015 against 0.012: the 0.010 record alone
C18_Witness ==
    /\ call.op = "filter_low_ctr"
    /\ call.file = CsvFile(Dataset3)
    /\ call.conf.sample_size = DefaultSampleSize
    /\ call.threshold = LowCtrThreshold
    /\ call.result = Return(<<Dataset3[1]>>)

\* the total of a column over the loaded rows of one date
DateTotal(date, column) == Sum(SelectSeq(call.df.val, LAMBDA r : r.date = date), column)

\* C19: get_roas_timeline returns one entry per distinct date, ordered by
\* date, whose spend, revenue, impressions and clicks are the sums over that
\* date's records and whose roas and ctr are the quotients of those sums
C19_TimelineFromSums ==
    (call.op = "get_roas_timeline" /\ ~call.df.raised) =>
        /\ ~call.result.raised
        /\ {call.result.val[k].date : k \in 1..Len(call.result.val)}
               = {call.df.val[i].date : i \in 1..Len(call.df.val)}
        /\ \A k \in 1..Len(call.result.val) :
              LET e == call.result.val[k]
              IN /\ k > 1 => call.result.val[k - 1].date < e.date
                 /\ e.spend = DateTotal(e.date, "spend")
                 /\ e.revenue = DateTotal(e.date, "revenue")
                 /\ e.impressions = DateTotal(e.date, "impressions")
                 /\ e.clicks = DateTotal(e.date, "clicks")
                 /\ e.spend # 0 =>
                       /\ e.roas.t = "ratio"
                       /\ e.roas.v[1] * e.spend = e.roas.v[2] * e.revenue
                       /\ e.roas.v[2] > 0
                 /\ e.impressions # 0 =>
                       /\ e.ctr.t = "ratio"
                       /\ e.ctr.v[1] * e.impressions = e.ctr.v[2] * e.clicks
                       /\ e.ctr.v[2] > 0

\* two records of one date with spend 10 and 20 and revenue 5 and 30 (roas
\* 0.5 and 1.5, mean 1.0): one entry with spend 30, revenue 35 and roas 7/6
C19_Witness ==
    /\ call.op = "get_roas_timeline"
    /\ ~call.result.raised
    /\ \E k \in 1..Len(call.result.val) :
          /\ call.result.val[k].spend = 30
          /\ call.result.val[k].revenue = 35
          /\ call.result.val[k].roas = [t |-> "ratio", v |-> <<7, 6>>]
          /\ Len(SelectSeq(call.df.val, LAMBDA r : r.date = call.result.val[k].date)) = 2

\* what the specification accepts for an undefined quotient
Sentinels == {Num(0), Lit("undefined"), Lit("None")}

\* C20: a date whose total spend or total impressions is zero gets a defined
\* sentinel as its roas or ctr, not an infinite or not-a-number value and not
\* a raised error
C20_ZeroTotalGivesSentinel ==
    (call.op = "get_roas_timeline" /\ ~call.df.raised) =>
        /\ ~call.result.raised
        /\ \A k \in 1..Len(call.result.val) :
              /\ call.result.val[k].spend = 0 => call.result.val[k].roas \in Sentinels
              /\ call.result.val[k].impressions = 0 => call.result.val[k].ctr \in Sentinels

\* the rows of the file that the loaded frame left out, as positions: the
\* frame is a prefix of a date-sorted arrangement of the file exactly when it
\* is sorted, holds rows of the file (each as often as the file at most) and
\* no row left out is dated before a row kept
Occurrences(df, row) == Cardinality({i \in 1..Len(df) : df[i] = row})

\* C21: load returns the records sorted ascending by date; in sampling
\* mode with size N it returns the first min(N, total) records of the
\* date-sorted sequence, and without sampling all of them
C21_SortedThenSampled ==
    (call.op = "load" /\ call.file.exists /\ call.file.readable) =>
        LET df == call.df.val
            rows == call.file.rows
            kept == IF call.conf.sample_mode THEN Min(call.conf.sample_size, Len(rows))
                    ELSE Len(rows)
        IN /\ ~call.df.raised
           /\ Len(df) = kept
           /\ \A i \in 1..Len(df) : \A j \in i..Len(df) : df[i].date <= df[j].date
           /\ \A i \in 1..Len(rows) :
                 /\ Occurrences(df, rows[i]) <= Occurrences(rows, rows[i])
                 /\ Occurrences(df, rows[i]) < Occurrences(rows, rows[i]) =>
                       \A j \in 1..Len(df) : df[j].date <= rows[i].date
           /\ \A j \in 1..Len(df) : Occurrences(rows, df[j]) > 0

\* a file of three rows whose last row is the earliest, sampled to two
C21_Witness ==
    /\ call.op = "load"
    /\ call.file.rows = <<IdleRow, Dataset3[1], Dataset3[2]>>
    /\ call.conf.sample_mode
    /\ call.conf.sample_size = SmallSampleSize
    /\ call.df = Return(<<Dataset3[2], Dataset3[1]>>)

ReportedAgents == [k \in 1..Len(ReportContent.execution_trace) |->
                      ReportContent.execution_trace[k].agent]

\* C23: every report execute returns holds an execution trace of exactly
\* five entries, one per stage of that run, in the order planner, data_agent,
\* insight_agent, evaluator, creative_generator; on every execute call of an
\* orchestrator, not only the first
C23_FiveTraceEntries ==
    (pc = "returned" /\ ret.status = "success") =>
        /\ ReportedAgents = <<"planner", "data_agent", "insight_agent", "evaluator",
                              "creative_generator">>
        /\ \A k \in 1..Len(ReportContent.execution_trace) :
              ReportContent.execution_trace[k].timestamp > ret.execution_id

\* a step in which the named stage was invoked and returned
StageReturned(stage) ==
    /\ invoked' = Append(invoked, stage)
    /\ ~(fault'.at = stage /\ fault'.in_stage)

\* C24: each stage that returns appends exactly one entry to the execution
\* trace, carrying the stage's name and the status of its result, and stores
\* the result under the stage's name in results; the entries already in the
\* trace are neither removed, reordered nor modified
C24_TraceAppendOnly ==
    [][/\ Len(execution_trace') >= Len(execution_trace)
       /\ SubSeq(execution_trace', 1, Len(execution_trace)) = execution_trace
       /\ \A stage \in AgentNames :
             StageReturned(stage) =>
                /\ Len(execution_trace') = Len(execution_trace) + 1
                /\ execution_trace'[Len(execution_trace')].agent = stage
                /\ stage \in DOMAIN results'
                /\ execution_trace'[Len(execution_trace')].status = results'[stage].status
                /\ \A other \in DOMAIN results \ {stage} :
                      other \in DOMAIN results' /\ results'[other] = results[other]
                /\ DOMAIN results' = DOMAIN results \cup {stage}
       /\ (\A stage \in AgentNames : ~StageReturned(stage)) =>
             /\ execution_trace' = execution_trace
             /\ results' = results]_vars

\* the data stage returned status error and its entry follows the planner's
C24_Witness ==
    /\ pc = "insight_agent"
    /\ Len(execution_trace) = 2
    /\ execution_trace[1].agent = "planner"
    /\ execution_trace[2] = [agent |-> "data_agent", status |-> "error",
                             timestamp |-> execution_trace[2].timestamp]
    /\ results["data_agent"].status = "error"

\* the field of a stage result a context field was narrowed from, or the
\* empty dict the orchestrator puts in its place
Narrowed(stage, field) == CtxGet(results[stage], field, EmptyDict)

\* C25: the context of each stage holds narrowed fields of prior stage
\* results only, never a prior result as a whole: Hypothesize gets exactly
\* plan, data_summary and analysis, Validate exactly hypotheses, data_summary
\* and analysis, Recommend exactly analysis and data_summary; status, error
\* and task of prior results are not forwarded
C25_NarrowedContexts ==
    /\ "insight_agent" \in DOMAIN contexts =>
          contexts["insight_agent"] =
              [plan |-> Narrowed("planner", "plan"),
               data_summary |-> Narrowed("data_agent", "data_summary"),
               analysis |-> Narrowed("data_agent", "analysis")]
    /\ "evaluator" \in DOMAIN contexts =>
          contexts["evaluator"] =
              [hypotheses |-> Narrowed("insight_agent", "hypotheses"),
               data_summary |-> Narrowed("data_agent", "data_summary"),
               analysis |-> Narrowed("data_agent", "analysis")]
    /\ "creative_generator" \in DOMAIN contexts =>
          contexts["creative_generator"] =
              [analysis |-> Narrowed("data_agent", "analysis"),
               data_summary |-> Narrowed("data_agent", "data_summary")]
    /\ \A stage \in DOMAIN contexts \cap {"insight_agent", "evaluator", "creative_generator"} :
          /\ DOMAIN contexts[stage] \cap {"status", "error", "task"} = {}
          /\ \A field \in DOMAIN contexts[stage] :
                contexts[stage][field] \notin {results[a] : a \in DOMAIN results}

\* a run whose three later stages were invoked after a planner that produced
\* a plan and a data stage that produced a summary
C25_Witness ==
    /\ "creative_generator" \in DOMAIN contexts
    /\ results["planner"].status = "success"
    /\ "error" \notin DOMAIN results["planner"]
    /\ contexts["insight_agent"].plan = results["planner"].plan
    /\ contexts["creative_generator"].data_summary # EmptyDict

\* every generation call of a direct call returned a text the extractor
\* parsed, and the stage returned
ExtractionSucceeded(c) ==
    /\ c.prompt_ok
    /\ Len(c.outcomes) > 0
    /\ \A i \in 1..Len(c.outcomes) : ~GenerateJson(c.outcomes[i]).raised
    /\ ~c.result.raised

\* what the extractor parsed for a direct call: the record, and for the
\* creative role the records of its campaigns in order
ParsedOf(c) ==
    IF c.op = "creative_generator"
    THEN List([i \in 1..Len(c.outcomes) |-> GenerateJson(c.outcomes[i]).val])
    ELSE GenerateJson(c.outcomes[1]).val

\* C26: for each reasoning role, when generation returns and extraction
\* succeeds the stage returns status success and its payload is exactly what
\* the extractor parsed, with no fallback content substituted or mixed in
C26_ParsedIsPayload ==
    (call.op \in ReasoningRoles /\ ExtractionSucceeded(call)) =>
        /\ call.result.val.status = "success"
        /\ "error" \notin DOMAIN call.result.val
        /\ PayloadOf(call) = ParsedOf(call)

\* the planner called with an answer that holds a record of another shape
\* than its template
C26_Witness ==
    /\ call.op = "planner"
    /\ ExtractionSucceeded(call)
    /\ call.result.val.status = "success"
    /\ call.result.val.plan = GenerateJson(call.outcomes[1]).val
    /\ call.result.val.plan # FallbackPlan(UserQuery, call.context)

\* what parsing a block on its own gives
ParsedBlock(block) == Loaded(JsonLoads(block))

\* C27: the extractor tries its strategies in a fixed order and the first
\* match wins: a text that parses directly is returned as parsed, fences or
\* not; otherwise the interior of the first fence labelled json is parsed,
\* even when an unlabelled fence comes earlier; an unlabelled fence is used
\* only when no labelled fence is present
C27_StrategyOrder ==
    /\ call.op = "wrappings" =>
          /\ call.result.bare = ParsedBlock(call.outcomes[1].text)
          /\ call.result.plain = ParsedBlock(call.outcomes[1].text)
    /\ call.op = "mixed_fences" =>
          /\ call.result.plain_first = ParsedBlock(call.outcomes[1].text)
          /\ call.result.labelled_first = ParsedBlock(call.outcomes[1].text)

\* the same, for blocks none of whose strings holds a fence marker
C27_OrderOnPlainBlocks ==
    (call.op \in {"wrappings", "mixed_fences"} /\ ~Contains(call.outcomes[1].text, Fence)) =>
        C27_StrategyOrder

\* the low-CTR campaigns the Recommend stage was given
GivenLowCtr == Get(contexts["creative_generator"].analysis, "low_ctr_campaigns", EmptyList)

\* C28: after a successful dataset load the data stage's analysis holds an
\* entry for every requested analysis, so that a dataset with a record of ctr
\* below 0.012 gives the Recommend stage a non-empty low_ctr_campaigns list of
\* at most 5 entries
C28_AnalysisComplete ==
    ("data_agent" \in DOMAIN results /\ results["data_agent"].status = "success") =>
        /\ IsDict(results["data_agent"].analysis)
        /\ contexts["data_agent"].analysis_requirements
              \subseteq DOMAIN results["data_agent"].analysis.v
        /\ ("creative_generator" \in DOMAIN contexts
              /\ FilterLowCtr(Load(dataset.rows, config.sample_mode, config.sample_size),
                              LowCtrThreshold) # <<>>) =>
                 /\ IsList(GivenLowCtr)
                 /\ Len(GivenLowCtr.v) \in 1..5

\* all five stages returned: each left its entry in the trace
AllStagesReturned ==
    [k \in 1..Len(execution_trace) |-> execution_trace[k].agent]
        = <<"planner", "data_agent", "insight_agent", "evaluator", "creative_generator">>

\* the report of this run was compiled and all its artifacts were written
ReportPersisted ==
    /\ invoked # <<>>
    /\ invoked[Len(invoked)] = "compile"
    /\ DOMAIN files = {"insights", "creatives", "report"}
    /\ files["report"].v = execution_id

\* C29: execute returns top-level status success if and only if all five
\* stages returned without raising and the report was compiled and persisted
\* without raising; the statuses of the stage results play no part, so a run
\* with a partial or error stage still reports success
C29_SuccessIffNothingRaised ==
    pc = "returned" =>
        /\ ret.status \in {"success", "error"}
        /\ ret.status = "success" <=> (AllStagesReturned /\ ReportPersisted)
        /\ ret.status = "success" <=> fault = NoFault

\* a run that reports success although one stage returned partial and
\* another error
C29_Witness ==
    /\ pc = "returned"
    /\ ret.status = "success"
    /\ \E k \in 1..Len(execution_trace) : execution_trace[k].status = "partial"
    /\ \E k \in 1..Len(execution_trace) : execution_trace[k].status = "error"

====
